---- MODULE Spec2Model ----
(***************************************************************************)
(* A model of libcyclone's HDOB decoder: the unit value types of           *)
(* measure.rs, the field decoders, the line parser HDHALog::parse and the  *)
(* message parser HDOBMessage::parse of recon.rs.                          *)
(*                                                                         *)
(* Text is a sequence of one-character strings.  A Rust panic is the value *)
(* Panic; a function that returns normally returns Ret(v).  Option and     *)
(* Result values are Some(v) / None and Ok(v) / Err.                       *)
(***************************************************************************)
EXTENDS Integers, Sequences, FiniteSets, TLC

VARIABLES
    overflow_checks, \* the build profile: TRUE panics on integer overflow, FALSE wraps
    hdob,            \* HDOBMessage::parse: the message text
    pc,              \* the position of the running function
    lines,           \* HDOBMessage::parse: the lines the iterator has yet to yield
    header,          \* HDOBMessage::parse: local header
    mission_id,      \* HDOBMessage::parse: local mission_id
    obs_number,      \* HDOBMessage::parse: local obs_number
    date,            \* HDOBMessage::parse: local date
    obs,             \* HDOBMessage::parse: local obs
    args,            \* the arguments of a decoder called on its own
    result           \* what the running function returned, or Panic

vars == <<overflow_checks, hdob, pc, lines, header, mission_id, obs_number, date, obs,
          args, result>>

-----------------------------------------------------------------------------
(* Outcomes *)

Panic == [tag |-> "panic"]
Ret(v) == [tag |-> "return", val |-> v]
None == [tag |-> "None"]
Some(v) == [tag |-> "Some", val |-> v]
Err == [tag |-> "Err"]
Ok(v) == [tag |-> "Ok", val |-> v]
NoValue == [tag |-> "unset"]

\* The rest of a function runs only if the call before it returned.
Bind(r, F(_)) == IF r.tag = "panic" THEN Panic ELSE F(r.val)

-----------------------------------------------------------------------------
(* Characters and text *)

LF == "\n"
CR == "\r"
SP == " "
DigitChars == <<"0", "1", "2", "3", "4", "5", "6", "7", "8", "9">>
IsDigit(c) == \E i \in 1..10 : DigitChars[i] = c
DigitVal(c) == (CHOOSE i \in 1..10 : DigitChars[i] = c) - 1
UpperChars == {"A", "B", "C", "D", "E", "F", "G", "H", "I", "J", "K", "L", "M",
               "N", "O", "P", "Q", "R", "S", "T", "U", "V", "W", "X", "Y", "Z"}
WhiteChars == {SP, "\t", LF, CR}

Tail2(s, k) == SubSeq(s, k, Len(s))

\* str::split(sep) for a one-character separator: the pieces between the separators,
\* empty pieces included.
RECURSIVE Split(_, _)
Split(s, sep) ==
    IF \A i \in 1..Len(s) : s[i] # sep
    THEN <<s>>
    ELSE LET k == CHOOSE i \in 1..Len(s) : s[i] = sep /\ \A j \in 1..(i - 1) : s[j] # sep
         IN <<SubSeq(s, 1, k - 1)>> \o Split(Tail2(s, k + 1), sep)

\* str::lines(): the pieces that end at a "\n", each without its "\n" and without a
\* "\r" right before it, then what follows the last "\n" if that is not empty.
StrLines(s) ==
    LET parts == Split(s, LF)
        n == Len(parts)
        StripCR(l) == IF Len(l) > 0 /\ l[Len(l)] = CR THEN SubSeq(l, 1, Len(l) - 1) ELSE l
        ended == [i \in 1..(n - 1) |-> StripCR(parts[i])]
    IN IF parts[n] = <<>> THEN ended ELSE ended \o <<parts[n]>>

\* str::trim(): without the leading and trailing white space.
StrTrim(s) ==
    LET keep == {i \in 1..Len(s) : s[i] \notin WhiteChars}
    IN IF keep = {} THEN <<>>
       ELSE LET lo == CHOOSE i \in keep : \A j \in keep : i <= j
                hi == CHOOSE i \in keep : \A j \in keep : i >= j
            IN SubSeq(s, lo, hi)

-----------------------------------------------------------------------------
(* Integers of the machine *)

I32Max == 2147483647
I32Min == (-2147483647) - 1
U8Max == 255

\* The digits of s read as a number no greater than hi: Err on a character that is no
\* digit and on overflow.
RECURSIVE ReadDigits(_, _, _)
ReadDigits(s, acc, hi) ==
    IF s = <<>> THEN Ok(acc)
    ELSE IF ~IsDigit(s[1]) THEN Err
    ELSE LET d == DigitVal(s[1])
         IN IF acc > (hi - d) \div 10 THEN Err
            ELSE ReadDigits(Tail(s), acc * 10 + d, hi)

\* str::parse::<u32>() and ::<u8>(): an optional "+", then one digit or more.  The
\* model's tokens are short enough that a u32 never overflows; hi is what the model's
\* integers can hold.
ParseUnsigned(s, hi) ==
    IF s = <<>> THEN Err
    ELSE IF s[1] = "+" THEN (IF Len(s) = 1 THEN Err ELSE ReadDigits(Tail(s), 0, hi))
    ELSE ReadDigits(s, 0, hi)

ParseU32(s) == ParseUnsigned(s, I32Max)
ParseU8(s) == ParseUnsigned(s, U8Max)

\* str::parse::<i32>(): an optional "+" or "-", then one digit or more.
ParseI32(s) ==
    IF s = <<>> THEN Err
    ELSE IF s[1] \in {"+", "-"} THEN
        IF Len(s) = 1 THEN Err
        ELSE LET r == ReadDigits(Tail(s), 0, I32Max)
             IN IF r.tag = "Err" THEN Err
                ELSE IF s[1] = "-" THEN Ok(0 - r.val) ELSE r
    ELSE ReadDigits(s, 0, I32Max)

\* Result::unwrap() and Option::unwrap() / expect().
Unwrap(r) == IF r.tag \in {"Ok", "Some"} THEN Ret(r.val) ELSE Panic

\* a + b in i32: on overflow the build decides, a panic or the wrapped sum.
AddI32(a, b) ==
    IF b > 0 /\ a > I32Max - b
    THEN (IF overflow_checks THEN Panic ELSE Ret(((a - I32Max) - 1) + ((b - I32Max) - 1)))
    ELSE IF b < 0 /\ a < I32Min - b
    THEN (IF overflow_checks THEN Panic ELSE Ret(((a + I32Max) + 1) + ((b + I32Max) + 1)))
    ELSE Ret(a + b)

\* The wrapped sum x + y in i32.
WrapAdd(x, y) ==
    IF y > 0 /\ x > I32Max - y THEN ((x - I32Max) - 1) + ((y - I32Max) - 1)
    ELSE IF y < 0 /\ x < I32Min - y THEN ((x + I32Max) + 1) + ((y + I32Max) + 1)
    ELSE x + y

\* The wrapped product a * n in i32, for n >= 0, by doubling.
RECURSIVE WrapMul(_, _)
WrapMul(a, n) ==
    IF n = 0 THEN 0
    ELSE LET half == WrapMul(a, n \div 2)
             twice == WrapAdd(half, half)
         IN IF n % 2 = 1 THEN WrapAdd(twice, a) ELSE twice

\* a * n in i32, n > 0: on overflow the build decides, a panic or the wrapped product.
MulI32(a, n) ==
    IF a > I32Max \div n \/ a < 0 - (I32Max \div n)
    THEN (IF overflow_checks THEN Panic ELSE Ret(WrapMul(a, n)))
    ELSE Ret(a * n)

\* Rust's / and % on i32 truncate towards zero.
DivTrunc(a, b) == IF a >= 0 THEN a \div b ELSE 0 - ((0 - a) \div b)

-----------------------------------------------------------------------------
(* measure.rs: the unit value types.  A value of a type is the number it stores. *)

Pressure_with_microbars(ub) == ub
Pressure_millibars(p) == DivTrunc(p, 1000)
DValue_with_meters(m) == m
Altitude_with_meters(m) == m
Speed_with_knots(kt) == kt
RainRate_with_mm_per_hr(r) == r
Direction_with_angle(a) == a
Wind_with_direction_and_speed(d, sp) == [direction |-> d, speed |-> sp]

\* Angle::with_degrees_minutes_seconds: the arc seconds stored.  (u32; the model's
\* inputs keep the sum far below 2^31.)
Angle_with_degrees_minutes_seconds(d, m, s) == d * 60 * 60 + m * 60 + s

\* Angle::degrees_minutes_seconds without the remainder of the hour in the minutes.
Angle_degrees_minutes_seconds_whole(a) == <<a \div (60 * 60), a \div 60, a % 60>>

\* Angle::degrees_minutes_seconds
Angle_degrees_minutes_seconds(a) == <<a \div (60 * 60), (a % (60 * 60)) \div 60, a % 60>>

\* Temperature::with_millicelsius without the test for absolute zero.
Temperature_with_millicelsius_unchecked(mc) ==
    Bind(AddI32(mc, 273150), LAMBDA mk : Ret(mk))

\* Temperature::with_millicelsius: the millikelvin stored, or a panic below absolute zero.
Temperature_with_millicelsius(mc) ==
    Bind(AddI32(mc, 273150), LAMBDA mk : IF mk < 0 THEN Panic ELSE Ret(mk))

-----------------------------------------------------------------------------
(* chrono *)

IsLeap(y) == (y % 4 = 0 /\ y % 100 # 0) \/ y % 400 = 0
DaysIn(y, m) ==
    IF m = 2 THEN (IF IsLeap(y) THEN 29 ELSE 28)
    ELSE IF m \in {4, 6, 9, 11} THEN 30 ELSE 31

\* Utc.ymd(y, m, d) panics on a day that is not in the calendar.
UtcYmd(y, m, d) ==
    IF m \in 1..12 /\ d >= 1 /\ d <= DaysIn(y, m) THEN Ret([y |-> y, m |-> m, d |-> d])
    ELSE Panic

\* Date::and_hms(h, m, s) panics on a time that is not on the clock.
AndHms(dt, h, m, s) ==
    IF h < 24 /\ m < 60 /\ s < 60 THEN Ret([date |-> dt, h |-> h, m |-> m, s |-> s])
    ELSE Panic

-----------------------------------------------------------------------------
(* regex: Regex::captures searches the text for the leftmost match; the patterns of *)
(* recon.rs carry no ^ or $.                                                       *)

AllDigits(s) == \A i \in 1..Len(s) : IsDigit(s[i])

\* The leftmost place where the len characters satisfy P, as Some(place) or None.
FindFixed(s, len, P(_)) ==
    LET at == {i \in 1..(Len(s) - len + 1) : P(SubSeq(s, i, i + len - 1))}
    IN IF at = {} THEN None ELSE Some(CHOOSE i \in at : \A j \in at : i <= j)

\* Two digits as a number: a capture of [0-9]{2} parsed and unwrapped.
Num(s) == ParseU32(s).val

-----------------------------------------------------------------------------
(* recon.rs: the field decoders *)

MISSING == <<"/", "/", "/">>

\* parse_hhmmss: ([0-9]{2})([0-9]{2})([0-9]{2})
parse_hhmmss(dt, hhmmss) ==
    LET found == FindFixed(hhmmss, 6, AllDigits)
    IN IF found.tag = "None" THEN Panic
       ELSE LET i == found.val
            IN AndHms(dt, Num(SubSeq(hhmmss, i, i + 1)), Num(SubSeq(hhmmss, i + 2, i + 3)),
                      Num(SubSeq(hhmmss, i + 4, i + 5)))

\* parse_latlon: ([0-9]{2})([0-9]{2})([NS]) and ([0-9]{3})([0-9]{2})([EW])
parse_latlon(llllh, nnnnnh) ==
    LET IsLat(t) == AllDigits(SubSeq(t, 1, 4)) /\ t[5] \in {"N", "S"}
        IsLon(t) == AllDigits(SubSeq(t, 1, 5)) /\ t[6] \in {"E", "W"}
        lat == FindFixed(llllh, 5, IsLat)
        lon == FindFixed(nnnnnh, 6, IsLon)
    IN IF lat.tag = "None" \/ lon.tag = "None" THEN Panic
       ELSE LET i == lat.val
                j == lon.val
            IN Ret([latitude |->
                       [angle |-> Angle_with_degrees_minutes_seconds(Num(SubSeq(llllh, i, i + 1)),
                                               Num(SubSeq(llllh, i + 2, i + 3)), 0),
                        hemisphere |-> IF llllh[i + 4] = "N" THEN "NORTH" ELSE "SOUTH"],
                    longitude |->
                       [angle |-> Angle_with_degrees_minutes_seconds(Num(SubSeq(nnnnnh, j, j + 2)),
                                               Num(SubSeq(nnnnnh, j + 3, j + 4)), 0),
                        hemisphere |-> IF nnnnnh[j + 5] = "E" THEN "EAST" ELSE "WEST"]])

\* parse_aircraft_pressure with the threshold moved: raw >= 2000 taken as it is.
parse_aircraft_pressure_threshold(pppp) ==
    Bind(Unwrap(ParseI32(pppp)), LAMBDA raw :
        IF raw >= 2000
        THEN Bind(MulI32(raw, 100), LAMBDA ub : Ret(Pressure_with_microbars(ub)))
        ELSE Bind(AddI32(raw, 10000), LAMBDA full :
             Bind(MulI32(full, 100), LAMBDA ub : Ret(Pressure_with_microbars(ub)))))

\* parse_aircraft_pressure: tenths of a millibar, the leading 1 dropped at 1000 mb and above.
parse_aircraft_pressure(pppp) ==
    Bind(Unwrap(ParseI32(pppp)), LAMBDA raw :
        IF raw > 2000
        THEN Bind(MulI32(raw, 100), LAMBDA ub : Ret(Pressure_with_microbars(ub)))
        ELSE Bind(AddI32(raw, 10000), LAMBDA full :
             Bind(MulI32(full, 100), LAMBDA ub : Ret(Pressure_with_microbars(ub)))))

ExtrapolatedPressure(p) == [variant |-> "ExtrapolatedPressure", val |-> p]
DValue(d) == [variant |-> "DValue", val |-> d]

\* parse_extrapolated_sfc_pressure with the D-value branch taken at 550 mb too.
parse_extrapolated_sfc_pressure_at_550(altitude, xxxx) ==
    IF xxxx = MISSING THEN Ret(None)
    ELSE IF Pressure_millibars(altitude) <= 550
    THEN Bind(Unwrap(ParseI32(xxxx)), LAMBDA raw :
             IF raw > 5000
             THEN Ret(Some(DValue(DValue_with_meters((-1) * (raw - 5000)))))
             ELSE Ret(Some(DValue(DValue_with_meters(raw)))))
    ELSE Bind(parse_aircraft_pressure(xxxx), LAMBDA p : Ret(Some(ExtrapolatedPressure(p))))

\* parse_extrapolated_sfc_pressure
parse_extrapolated_sfc_pressure(altitude, xxxx) ==
    IF xxxx = MISSING THEN Ret(None)
    ELSE IF Pressure_millibars(altitude) < 550
    THEN Bind(Unwrap(ParseI32(xxxx)), LAMBDA raw :
             IF raw > 5000
             THEN Ret(Some(DValue(DValue_with_meters((-1) * (raw - 5000)))))
             ELSE Ret(Some(DValue(DValue_with_meters(raw)))))
    ELSE Bind(parse_aircraft_pressure(xxxx), LAMBDA p : Ret(Some(ExtrapolatedPressure(p))))

\* parse_temperature: Result::map, then Result::ok.
parse_temperature(sttt) ==
    LET r == ParseI32(sttt)
    IN IF r.tag = "Err" THEN Ret(None)
       ELSE Bind(MulI32(r.val, 100), LAMBDA mc :
            Bind(Temperature_with_millicelsius(mc), LAMBDA t : Ret(Some(t))))

\* parse_wind
parse_wind(www_sss) ==
    LET r == ParseU32(www_sss)
    IN IF r.tag = "Err" THEN Ret(None)
       ELSE Ret(Some(Wind_with_direction_and_speed(
                Direction_with_angle(Angle_with_degrees_minutes_seconds(r.val \div 1000, 0, 0)),
                Speed_with_knots(r.val % 1000))))

\* parse_speed that unwraps the number instead of turning a failure into None.
parse_speed_unwrap(sss) ==
    Bind(Unwrap(ParseU32(sss)), LAMBDA knots : Ret(Some(Speed_with_knots(knots))))

\* parse_speed
parse_speed(sss) ==
    LET r == ParseU32(sss)
    IN IF r.tag = "Err" THEN Ret(None) ELSE Ret(Some(Speed_with_knots(r.val)))

\* parse_rain_rate
parse_rain_rate(ppp) ==
    LET r == ParseU32(ppp)
    IN IF r.tag = "Err" THEN Ret(None) ELSE Ret(Some(RainRate_with_mm_per_hr(r.val)))

-----------------------------------------------------------------------------
(* recon.rs: the line parser *)

\* The flags of the tens digit of the quality code, or a panic.
PosQuality(x) ==
    CASE x = 0 -> Ret(<<FALSE, FALSE>>)
      [] x = 1 -> Ret(<<TRUE, FALSE>>)
      [] x = 2 -> Ret(<<FALSE, TRUE>>)
      [] x = 3 -> Ret(<<TRUE, TRUE>>)
      [] OTHER -> Panic

\* MetQuality with the rows of 3 and 4 exchanged.
MetQuality_swapped(x) ==
    CASE x = 0 -> Ret(<<FALSE, FALSE, FALSE>>)
      [] x = 1 -> Ret(<<TRUE, FALSE, FALSE>>)
      [] x = 2 -> Ret(<<FALSE, TRUE, FALSE>>)
      [] x = 3 -> Ret(<<TRUE, TRUE, FALSE>>)
      [] x = 4 -> Ret(<<FALSE, FALSE, TRUE>>)
      [] x = 5 -> Ret(<<TRUE, FALSE, TRUE>>)
      [] x = 6 -> Ret(<<FALSE, TRUE, TRUE>>)
      [] x = 9 -> Ret(<<TRUE, TRUE, TRUE>>)
      [] OTHER -> Panic

\* The flags of the ones digit of the quality code, or a panic.
MetQuality(x) ==
    CASE x = 0 -> Ret(<<FALSE, FALSE, FALSE>>)
      [] x = 1 -> Ret(<<TRUE, FALSE, FALSE>>)
      [] x = 2 -> Ret(<<FALSE, TRUE, FALSE>>)
      [] x = 3 -> Ret(<<FALSE, FALSE, TRUE>>)
      [] x = 4 -> Ret(<<TRUE, TRUE, FALSE>>)
      [] x = 5 -> Ret(<<TRUE, FALSE, TRUE>>)
      [] x = 6 -> Ret(<<FALSE, TRUE, TRUE>>)
      [] x = 9 -> Ret(<<TRUE, TRUE, TRUE>>)
      [] OTHER -> Panic

\* cols.next().expect(..) handed to a decoder: the i-th piece of the line decoded, or a
\* panic when the line has no i-th piece.
Col(cols, i, Decode(_)) == IF i <= Len(cols) THEN Decode(cols[i]) ELSE Panic

\* HDHALog::parse: the columns are taken and decoded one after the other, and the
\* first panic ends the parse, so the parse returns only if every step returned.
\* Nothing looks at what follows the thirteenth column.
HDHALog_parse(dt, line) ==
    LET cols == Split(line, SP)
        time == Col(cols, 1, LAMBDA c : parse_hhmmss(dt, c))
        location == Col(cols, 2, LAMBDA lat : Col(cols, 3, LAMBDA lon : parse_latlon(lat, lon)))
        aircraft_pressure == Col(cols, 4, parse_aircraft_pressure)
        height == Col(cols, 5, LAMBDA c : Bind(Unwrap(ParseU32(c)), LAMBDA m :
                                               Ret(Altitude_with_meters(m))))
        surface_pressure ==
            Bind(aircraft_pressure, LAMBDA p :
                Col(cols, 6, LAMBDA c : parse_extrapolated_sfc_pressure(p, c)))
        temp == Col(cols, 7, parse_temperature)
        dewpoint == Col(cols, 8, parse_temperature)
        wind == Col(cols, 9, parse_wind)
        peak_wind_speed == Col(cols, 10, parse_speed)
        peak_sfmr_speed == Col(cols, 11, parse_speed)
        rain_rate == Col(cols, 12, parse_rain_rate)
        quality == Col(cols, 13, LAMBDA c : Unwrap(ParseU8(c)))
        pos == Bind(quality, LAMBDA q : PosQuality(q \div 10))
        met == Bind(quality, LAMBDA q : MetQuality(q % 10))
        steps == <<time, location, aircraft_pressure, height, surface_pressure, temp,
                   dewpoint, wind, peak_wind_speed, peak_sfmr_speed, rain_rate, quality,
                   pos, met>>
    IN IF \E k \in 1..Len(steps) : steps[k].tag = "panic" THEN Panic
       ELSE Ret([time |-> time.val,
                 location |-> location.val,
                 aircraft_pressure |-> aircraft_pressure.val,
                 height |-> height.val,
                 surface_pressure |-> surface_pressure.val,
                 temp |-> temp.val,
                 dewpoint |-> dewpoint.val,
                 wind |-> wind.val,
                 peak_wind_speed |-> peak_wind_speed.val,
                 peak_sfmr_speed |-> peak_sfmr_speed.val,
                 rain_rate |-> rain_rate.val,
                 latlon_questionable |-> pos.val[1],
                 altitude_or_pressure_questionable |-> pos.val[2],
                 temp_or_dewpoint_questionable |-> met.val[1],
                 winds_questionable |-> met.val[2],
                 sfmr_questionable |-> met.val[3]])

-----------------------------------------------------------------------------
(* recon.rs: the message parser *)

END_OF_MESSAGE == <<"$", "$">>

\* The mission-header pattern after its first group: " HDOB dd dddddddd" at place k.
HdobTailAt(s, k) ==
    /\ k + 16 <= Len(s)
    /\ SubSeq(s, k, k + 5) = <<" ", "H", "D", "O", "B", " ">>
    /\ AllDigits(SubSeq(s, k + 6, k + 7))
    /\ s[k + 8] = " "
    /\ AllDigits(SubSeq(s, k + 9, k + 16))

\* re.captures(mission_header) for
\* ([A-Z0-9 ]*) HDOB ([0-9]{2}) ([0-9]{4})([0-9]{2})([0-9]{2}): the leftmost start from
\* which a run of [A-Z0-9 ] reaches a place where the rest matches, the run taken as
\* long as it can be.  Some(the five groups) or None.
MissionHeaderCaptures(s) ==
    LET InClass(c) == c \in UpperChars \/ IsDigit(c) \/ c = " "
        tails == {k \in 1..Len(s) : HdobTailAt(s, k)}
        Run(i, k) == i <= k /\ \A x \in i..(k - 1) : InClass(s[x])
        starts == {i \in 1..Len(s) : \E k \in tails : Run(i, k)}
    IN IF starts = {} THEN None
       ELSE LET i == CHOOSE a \in starts : \A b \in starts : a <= b
                ends == {k \in tails : Run(i, k)}
                k == CHOOSE a \in ends : \A b \in ends : a >= b
            IN Some(<<SubSeq(s, i, k - 1), SubSeq(s, k + 6, k + 7), SubSeq(s, k + 9, k + 12),
                      SubSeq(s, k + 13, k + 14), SubSeq(s, k + 15, k + 16)>>)

\* HDOBMessage::parse up to its loop: the first line is skipped, the second is the
\* header, the third the mission header.  Ret(the locals) or Panic.
ParseHeaderLines(text) ==
    LET all == StrLines(text)
    IN IF Len(all) < 2 THEN Panic
       ELSE IF Len(all) < 3 THEN Panic
       ELSE Bind(Unwrap(MissionHeaderCaptures(all[3])), LAMBDA captures :
            Bind(Unwrap(ParseU32(captures[2])), LAMBDA n :
            Bind(Unwrap(ParseI32(captures[3])), LAMBDA y :
            Bind(Unwrap(ParseU32(captures[4])), LAMBDA m :
            Bind(Unwrap(ParseU32(captures[5])), LAMBDA d :
            Bind(UtcYmd(y, m, d), LAMBDA dt :
            Ret([header |-> StrTrim(all[2]),
                 mission_id |-> StrTrim(captures[1]),
                 obs_number |-> n,
                 date |-> dt,
                 lines |-> Tail2(all, 4)])))))))

\* A line that begins with "$$" taken for the end mark.
IsEndOfMessage_prefix(line) == Len(line) >= 2 /\ SubSeq(line, 1, 2) = END_OF_MESSAGE

\* Line 47: line == "$$".
IsEndOfMessage(line) == line = END_OF_MESSAGE

\* Lines 28-45: the header lines are read and obs starts empty.
ReadHeader ==
    /\ pc = "start"
    /\ LET h == ParseHeaderLines(hdob)
       IN IF h.tag = "panic"
          THEN /\ pc' = "done"
               /\ result' = Panic
               /\ UNCHANGED <<lines, header, mission_id, obs_number, date, obs>>
          ELSE /\ pc' = "loop"
               /\ header' = h.val.header
               /\ mission_id' = h.val.mission_id
               /\ obs_number' = h.val.obs_number
               /\ date' = h.val.date
               /\ lines' = h.val.lines
               /\ obs' = <<>>
               /\ UNCHANGED result
    /\ UNCHANGED <<overflow_checks, hdob, args>>

\* One turn of the loop that passes over a line the line parser panics on.
ObsLine_skip ==
    /\ pc = "loop"
    /\ lines # <<>>
    /\ ~IsEndOfMessage(Head(lines))
    /\ LET log == HDHALog_parse(date, Head(lines))
       IN /\ obs' = (IF log.tag = "panic" THEN obs ELSE Append(obs, log.val))
          /\ lines' = Tail(lines)
          /\ UNCHANGED <<pc, result>>
    /\ UNCHANGED <<overflow_checks, hdob, header, mission_id, obs_number, date, args>>

\* Lines 46-52, one turn of the loop on a line that is not "$$": the line is parsed
\* and its log pushed; a panic of the line parser ends the whole parse.
ObsLine ==
    /\ pc = "loop"
    /\ lines # <<>>
    /\ ~IsEndOfMessage(Head(lines))
    /\ LET log == HDHALog_parse(date, Head(lines))
       IN IF log.tag = "panic"
          THEN /\ pc' = "done"
               /\ result' = Panic
               /\ UNCHANGED <<lines, obs>>
          ELSE /\ obs' = Append(obs, log.val)
               /\ lines' = Tail(lines)
               /\ UNCHANGED <<pc, result>>
    /\ UNCHANGED <<overflow_checks, hdob, header, mission_id, obs_number, date, args>>

\* Lines 46-49 and 54-60: the loop ends at a line equal to "$$", or when the lines run
\* out, and the message is returned.
EndOfLines ==
    /\ pc = "loop"
    /\ IF lines = <<>> THEN TRUE ELSE IsEndOfMessage(Head(lines))
    /\ pc' = "done"
    /\ result' = Ret([header |-> header, mission_id |-> mission_id,
                      obs_number |-> obs_number, date |-> date, obs |-> obs])
    /\ UNCHANGED <<overflow_checks, hdob, lines, header, mission_id, obs_number, date, obs,
                   args>>

-----------------------------------------------------------------------------
(* The messages parsed *)

\* The greatest number of lines after the mission header.
MaxObsLines == 3

\* "URNT15 KNHC 031343", the line that is skipped.
PriorityLine ==
    <<"U", "R", "N", "T", "1", "5", " ", "K", "N", "H", "C", " ", "0", "3", "1", "3", "4",
      "3">>

\* " AF307 0606A EARL ", a header line with white space around it.
HeaderLine ==
    <<" ", "A", "F", "3", "0", "7", " ", "0", "6", "0", "6", "A", " ", "E", "A", "R", "L",
      " ">>

\* "AF307 0606A EARL HDOB 15 20220903"
MissionGood ==
    <<"A", "F", "3", "0", "7", " ", "0", "6", "0", "6", "A", " ", "E", "A", "R", "L", " ",
      "H", "D", "O", "B", " ", "1", "5", " ", "2", "0", "2", "2", "0", "9", "0", "3">>

\* "AF307 0606A EARL HDOB 15 20220903 NNNN": more after the day.
MissionTrailing ==
    <<"A", "F", "3", "0", "7", " ", "0", "6", "0", "6", "A", " ", "E", "A", "R", "L", " ",
      "H", "D", "O", "B", " ", "1", "5", " ", "2", "0", "2", "2", "0", "9", "0", "3", " ",
      "N", "N", "N", "N">>

\* "*AF307 HDOB 15 202209031": a character before the mission id, a digit after the day.
MissionAround ==
    <<"*", "A", "F", "3", "0", "7", " ", "H", "D", "O", "B", " ", "1", "5", " ", "2", "0",
      "2", "2", "0", "9", "0", "3", "1">>

\* "AF307 0606A EARL HDOB 15": no date.
MissionShort ==
    <<"A", "F", "3", "0", "7", " ", "0", "6", "0", "6", "A", " ", "E", "A", "R", "L", " ",
      "H", "D", "O", "B", " ", "1", "5">>

\* "AF307 HDOB 5 20220903": a one-digit observation number.
MissionOneDigit ==
    <<"A", "F", "3", "0", "7", " ", "H", "D", "O", "B", " ", "5", " ", "2", "0", "2", "2",
      "0", "9", "0", "3">>

\* "AF307 HDOB 15 20220231": the 31st of February.
MissionNoSuchDay ==
    <<"A", "F", "3", "0", "7", " ", "H", "D", "O", "B", " ", "1", "5", " ", "2", "0", "2",
      "2", "0", "2", "3", "1">>

MissionHeaders ==
    {MissionGood, MissionTrailing, MissionAround, MissionShort, MissionOneDigit,
     MissionNoSuchDay}

\* "181830 2006N 06141W 9236 00794 0115 +201 +173 123041 041 021 002 00"
Line1 ==
    <<"1", "8", "1", "8", "3", "0", " ", "2", "0", "0", "6", "N", " ", "0", "6", "1", "4",
      "1", "W", " ", "9", "2", "3", "6", " ", "0", "0", "7", "9", "4", " ", "0", "1", "1",
      "5", " ", "+", "2", "0", "1", " ", "+", "1", "7", "3", " ", "1", "2", "3", "0", "4",
      "1", " ", "0", "4", "1", " ", "0", "2", "1", " ", "0", "0", "2", " ", "0", "0">>

\* "135600 1821N 06526W 7752 02317 0126 +145 +051 234022 023 /// /// 03"
Line2 ==
    <<"1", "3", "5", "6", "0", "0", " ", "1", "8", "2", "1", "N", " ", "0", "6", "5", "2",
      "6", "W", " ", "7", "7", "5", "2", " ", "0", "2", "3", "1", "7", " ", "0", "1", "2",
      "6", " ", "+", "1", "4", "5", " ", "+", "0", "5", "1", " ", "2", "3", "4", "0", "2",
      "2", " ", "0", "2", "3", " ", "/", "/", "/", " ", "/", "/", "/", " ", "0", "3">>

\* "135630 1819N 06525W 7799 02267": a line cut short.
LineCut ==
    <<"1", "3", "5", "6", "3", "0", " ", "1", "8", "1", "9", "N", " ", "0", "6", "5", "2",
      "5", "W", " ", "7", "7", "9", "9", " ", "0", "2", "2", "6", "7">>

\* "$$ ": the end mark with a space after it.
LineEndSpace ==
    <<"$", "$", " ">>

ObsLines == {Line1, Line2, LineCut, LineEndSpace, END_OF_MESSAGE}

\* The lines ls, each followed by the line ending eol.
RECURSIVE Terminated(_, _)
Terminated(ls, eol) == IF ls = <<>> THEN <<>> ELSE Head(ls) \o eol \o Terminated(Tail(ls), eol)

\* The texts handed to HDOBMessage::parse: the priority line, the header, a mission
\* header and up to MaxObsLines further lines, ended by "\n" or by "\r\n"; and texts
\* that end before the mission header.
Messages ==
    {Terminated(<<PriorityLine, HeaderLine, mh>> \o body, eol) :
        mh \in MissionHeaders,
        body \in UNION {[1..n -> ObsLines] : n \in 0..MaxObsLines},
        eol \in {<<LF>>, <<CR, LF>>}}
    \cup {Terminated(<<PriorityLine>>, <<LF>>), Terminated(<<PriorityLine, HeaderLine>>, <<LF>>)}

Init ==
    /\ overflow_checks \in BOOLEAN
    /\ hdob \in Messages
    /\ pc = "start"
    /\ lines = <<>>
    /\ header = NoValue
    /\ mission_id = NoValue
    /\ obs_number = NoValue
    /\ date = NoValue
    /\ obs = <<>>
    /\ args = NoValue
    /\ result = NoValue

Next == ReadHeader \/ ObsLine \/ EndOfLines

Spec == Init /\ [][Next]_vars

\* The lines of the text after the mission header.
BodyLines(text) == Tail2(StrLines(text), 4)

\* How many lines of body come before the first line equal to "$$": all of them when
\* there is none.
BeforeEndMark(body) ==
    LET marks == {i \in 1..Len(body) : body[i] = <<"$", "$">>}
    IN IF marks = {} THEN Len(body) ELSE (CHOOSE i \in marks : \A j \in marks : i <= j) - 1

\* C1: when HDOBMessage::parse returns, obs holds the line parser's results of the
\* lines after the mission header and before the first line equal to "$$", one for
\* one and in their order; the "$$" line and the lines after it were not taken from
\* the iterator.
C1_ObsAreTheLinesBeforeEndMark ==
    (pc = "done" /\ result.tag = "return") =>
        LET body == BodyLines(hdob)
            n == BeforeEndMark(body)
        IN /\ Len(result.val.obs) = n
           /\ \A i \in 1..n :
                  HDHALog_parse(result.val.date, body[i]) = Ret(result.val.obs[i])
           /\ lines = Tail2(body, n + 1)

\* C1's case: a message was returned with the observation of its one line before the
\* "$$", and a line cut short follows the "$$".
C1_Witness ==
    /\ pc = "done"
    /\ result.tag = "return"
    /\ BodyLines(hdob) = <<Line1, END_OF_MESSAGE, LineCut>>
    /\ Len(result.val.obs) = 1
    /\ result.val.obs[1].height = 794

\* C2: when a line before the first "$$" makes the line parser panic,
\* HDOBMessage::parse ends in that panic: no message is returned.
C2_BadLineFailsTheMessage ==
    LET hdr == ParseHeaderLines(hdob)
        body == BodyLines(hdob)
    IN (/\ pc = "done"
        /\ hdr.tag = "return"
        /\ \E i \in 1..BeforeEndMark(body) :
               HDHALog_parse(hdr.val.date, body[i]).tag = "panic")
       => result = Panic

\* C2's case: one line was parsed and pushed, the next is cut short, and the parse
\* ended in a panic.
C2_Witness ==
    /\ pc = "done"
    /\ result = Panic
    /\ Len(obs) = 1
    /\ lines # <<>>
    /\ Head(lines) = LineCut

\* A whole line of the form <mission id> HDOB <nn> <yyyymmdd>, the mission id of
\* upper-case letters, digits and spaces.
IsMissionHeaderForm(s) ==
    /\ Len(s) >= 17
    /\ HdobTailAt(s, Len(s) - 16)
    /\ \A x \in 1..(Len(s) - 17) : s[x] \in UpperChars \/ IsDigit(s[x]) \/ s[x] = " "

\* C3: HDOBMessage::parse fails for every message whose third line is not of the form
\* of a mission header, extra characters around a matching part included.
C3_MalformedMissionHeaderFails ==
    (/\ pc = "done"
     /\ Len(StrLines(hdob)) >= 3
     /\ ~IsMissionHeaderForm(StrLines(hdob)[3]))
    => result = Panic


-----------------------------------------------------------------------------
(* Decoders called on their own *)

\* What HDOBMessage::parse keeps, untouched while a decoder runs on its own.
NoMessage ==
    /\ hdob = <<>>
    /\ lines = <<>>
    /\ header = NoValue
    /\ mission_id = NoValue
    /\ obs_number = NoValue
    /\ date = NoValue
    /\ obs = <<>>

\* n in decimal, with leading zeros up to w digits.
RECURSIVE ToDigits(_, _)
ToDigits(n, w) ==
    IF n < 10 /\ w <= 1 THEN <<DigitChars[n + 1]>>
    ELSE Append(ToDigits(n \div 10, w - 1), DigitChars[(n % 10) + 1])

\* The greatest number written in a pressure token.
MaxRaw == 9999

\* The PPPP and XXXX tokens: every number up to MaxRaw in four digits, the sentinel,
\* and tokens that are no four digits.
PressureTokens ==
    {ToDigits(n, 4) : n \in 0..MaxRaw}
    \cup {MISSING, <<"-", "5", "0", "0">>, <<"+", "0", "1", "1", "5">>, <<"1", "2", "A", "4">>,
          <<"9", "9", "9", "9", "9", "9", "9", "9">>, <<>>}

\* Aircraft pressures in microbars, on both sides of 550 mb.
PressureSamples == {0, 549999, 550000, 923000}

InitDecode ==
    /\ overflow_checks \in BOOLEAN
    /\ pc = "call"
    /\ args \in [altitude : PressureSamples, token : PressureTokens]
    /\ result = NoValue
    /\ NoMessage

Call_parse_aircraft_pressure ==
    /\ pc = "call"
    /\ pc' = "parse_aircraft_pressure"
    /\ result' = parse_aircraft_pressure(args.token)
    /\ UNCHANGED <<overflow_checks, hdob, lines, header, mission_id, obs_number, date, obs,
                   args>>

Call_parse_extrapolated_sfc_pressure ==
    /\ pc = "call"
    /\ pc' = "parse_extrapolated_sfc_pressure"
    /\ result' = parse_extrapolated_sfc_pressure(Pressure_with_microbars(args.altitude),
                                                 args.token)
    /\ UNCHANGED <<overflow_checks, hdob, lines, header, mission_id, obs_number, date, obs,
                   args>>

NextDecode == Call_parse_aircraft_pressure \/ Call_parse_extrapolated_sfc_pressure

SpecDecode == InitDecode /\ [][NextDecode]_vars

\* A token of four digits, and the number it writes.
IsFourDigits(t) == Len(t) = 4 /\ \A i \in 1..4 : t[i] \in {DigitChars[k] : k \in 1..10}
ValueOfFourDigits(t) ==
    DigitVal(t[1]) * 1000 + DigitVal(t[2]) * 100 + DigitVal(t[3]) * 10 + DigitVal(t[4])

\* The microbars a four-digit token of value raw stands for.
ExpectedMicrobars(raw) == IF raw > 2000 THEN raw * 100 ELSE (raw + 10000) * 100

\* C4: for every four-digit token of value raw, parse_aircraft_pressure returns
\* raw*100 microbars when raw > 2000 and (raw+10000)*100 microbars when raw <= 2000;
\* "9236" gives 923,600 and "0234" gives 1,023,400.
C4_AircraftPressure ==
    (pc = "parse_aircraft_pressure" /\ IsFourDigits(args.token)) =>
        /\ result = Ret(ExpectedMicrobars(ValueOfFourDigits(args.token)))
        /\ (args.token = <<"9", "2", "3", "6">> => result = Ret(923600))
        /\ (args.token = <<"0", "2", "3", "4">> => result = Ret(1023400))
        /\ (args.token = <<"2", "0", "0", "0">> => result = Ret(1200000))
        /\ (args.token = <<"2", "0", "0", "1">> => result = Ret(200100))

\* C4's case: the token "2000", at the threshold, has been decoded with the 10000 added.
C4_Witness ==
    /\ pc = "parse_aircraft_pressure"
    /\ args.token = <<"2", "0", "0", "0">>
    /\ result = Ret(1200000)

\* C5: with an aircraft pressure p and a four-digit token of value raw,
\* parse_extrapolated_sfc_pressure returns a DValue exactly when p is below 550 mb,
\* -(raw-5000) m when raw > 5000 and raw m otherwise, and else the extrapolated
\* pressure that parse_aircraft_pressure gives for the token.
C5_ExtrapolatedSfcPressure ==
    (pc = "parse_extrapolated_sfc_pressure" /\ IsFourDigits(args.token)) =>
        LET raw == ValueOfFourDigits(args.token)
        IN /\ result.tag = "return" /\ result.val.tag = "Some"
           /\ (result.val.val.variant = "DValue") <=> (args.altitude < 550000)
           /\ (args.altitude < 550000) =>
                  result.val.val.val = (IF raw > 5000 THEN 0 - (raw - 5000) ELSE raw)
           /\ (args.altitude >= 550000) =>
                  (/\ result.val.val.variant = "ExtrapolatedPressure"
                   /\ result.val.val.val = ExpectedMicrobars(raw))
           /\ (args.altitude = 923000 /\ args.token = <<"0", "1", "1", "5">>) =>
                  result = Ret(Some(ExtrapolatedPressure(1011500)))
           /\ (args.altitude = 549999 /\ args.token = <<"5", "2", "0", "0">>) =>
                  result = Ret(Some(DValue(-200)))

\* C5's case: below 550 mb the token "5200" has been decoded to the D-value -200 m.
C5_Witness ==
    /\ pc = "parse_extrapolated_sfc_pressure"
    /\ args.altitude = 549999
    /\ args.token = <<"5", "2", "0", "0">>
    /\ result = Ret(Some(DValue(-200)))

-----------------------------------------------------------------------------
(* The line parser called on its own *)

\* The pieces joined by single spaces.
RECURSIVE JoinCols(_)
JoinCols(cols) ==
    IF cols = <<>> THEN <<>>
    ELSE IF Len(cols) = 1 THEN cols[1]
    ELSE cols[1] \o <<SP>> \o JoinCols(Tail(cols))

\* The greatest number of pieces after the thirteenth.
MaxExtraCols == 2
\* The greatest quality code.
MaxQuality == 99

Cols1 == Split(Line1, SP)
Cols2 == Split(Line2, SP)
\* The columns of Line1 with an aircraft pressure of 523.4 mb, below 550 mb.
ColsAloft == [Cols1 EXCEPT ![4] = <<"5", "2", "3", "4">>]
Junk == <<"N", "/", "A">>

\* Twelve good columns, then a quality code: every number up to MaxQuality in two
\* digits, and tokens that are no two digits.
QualityLines ==
    {JoinCols(SubSeq(base, 1, 12) \o <<q>>) :
        base \in {Cols1, Cols2},
        q \in {ToDigits(n, 2) : n \in 0..MaxQuality}
              \cup {<<"7">>, <<"2", "5", "6">>, <<"0", "x">>, <<"+", "3">>}}

\* The first n columns of a good line, then up to MaxExtraCols more pieces.
ColumnLines ==
    {JoinCols(SubSeq(base, 1, n) \o [i \in 1..e |-> extra]) :
        base \in {Cols1, Cols2}, n \in 0..13, e \in 0..MaxExtraCols,
        extra \in {<<"0", "0">>, Junk}}

\* Good lines whose seven optional columns each hold a number, the sentinel or junk.
OptionalLinesOf(base) ==
    {JoinCols(SubSeq(base, 1, 5) \o <<c6, c7, c8, c9, c10, c11, c12>> \o <<base[13]>>) :
        c6 \in {base[6], MISSING, Junk}, c7 \in {base[7], MISSING, Junk},
        c8 \in {base[8], MISSING, Junk}, c9 \in {base[9], MISSING, Junk},
        c10 \in {base[10], MISSING, Junk}, c11 \in {base[11], MISSING, Junk},
        c12 \in {base[12], MISSING, Junk}}

OptionalLines == OptionalLinesOf(Cols1) \cup OptionalLinesOf(ColsAloft)

InitLine ==
    /\ overflow_checks \in BOOLEAN
    /\ pc = "call"
    /\ args \in [date : {[y |-> 2022, m |-> 9, d |-> 1]},
                 line : QualityLines \cup ColumnLines \cup OptionalLines]
    /\ result = NoValue
    /\ NoMessage

Call_HDHALog_parse ==
    /\ pc = "call"
    /\ pc' = "HDHALog_parse"
    /\ result' = HDHALog_parse(args.date, args.line)
    /\ UNCHANGED <<overflow_checks, hdob, lines, header, mission_id, obs_number, date, obs,
                   args>>

NextLine == Call_HDHALog_parse

SpecLine == InitLine /\ [][NextLine]_vars

\* The columns of the line handed to HDHALog::parse.
ArgCols == Split(args.line, SP)

\* The white-space separated tokens of a line.
Tokens(line) == SelectSeq(Split(line, SP), LAMBDA t : t # <<>>)

IsTwoDigits(t) == Len(t) = 2 /\ \A i \in 1..2 : t[i] \in {DigitChars[k] : k \in 1..10}

\* The tables of the quality code, as the format gives them.
PosFlags == [d \in 0..3 |-> <<d \in {1, 3}, d \in {2, 3}>>]
MetFlags == [d \in {0, 1, 2, 3, 4, 5, 6, 9} |->
                <<d \in {1, 4, 5, 9}, d \in {2, 4, 6, 9}, d \in {3, 5, 6, 9}>>]

\* C6: on a line of twelve good columns and a two-digit quality code, HDHALog::parse
\* sets the five flags from the two digits as the tables give, each digit on its own;
\* a tens digit of 4..9 or a ones digit of 7 or 8 makes the parse fail.  Code 00 gives
\* five flags false and code 93 fails.
C6_QualityFlags ==
    (/\ pc = "HDHALog_parse"
     /\ Len(ArgCols) = 13
     /\ IsTwoDigits(ArgCols[13])
     /\ HDHALog_parse(args.date,
                      JoinCols([ArgCols EXCEPT ![13] = <<"0", "0">>])).tag = "return")
    => LET tens == DigitVal(ArgCols[13][1])
           ones == DigitVal(ArgCols[13][2])
       IN /\ IF tens \in DOMAIN PosFlags /\ ones \in DOMAIN MetFlags
             THEN /\ result.tag = "return"
                  /\ <<result.val.latlon_questionable,
                       result.val.altitude_or_pressure_questionable>> = PosFlags[tens]
                  /\ <<result.val.temp_or_dewpoint_questionable,
                       result.val.winds_questionable,
                       result.val.sfmr_questionable>> = MetFlags[ones]
             ELSE result = Panic
          /\ (ArgCols[13] = <<"0", "0">> =>
                  /\ result.tag = "return"
                  /\ ~result.val.latlon_questionable
                  /\ ~result.val.altitude_or_pressure_questionable
                  /\ ~result.val.temp_or_dewpoint_questionable
                  /\ ~result.val.winds_questionable
                  /\ ~result.val.sfmr_questionable)
          /\ (ArgCols[13] = <<"9", "3">> => result = Panic)

\* C6's case: a line with the quality code 23 was parsed: altitude or pressure
\* questionable and SFMR questionable, the other flags false.
C6_Witness ==
    /\ pc = "HDHALog_parse"
    /\ Len(ArgCols) = 13
    /\ ArgCols[13] = <<"2", "3">>
    /\ result.tag = "return"
    /\ result.val.altitude_or_pressure_questionable
    /\ result.val.sfmr_questionable
    /\ ~result.val.latlon_questionable
    /\ ~result.val.winds_questionable

\* C7: HDHALog::parse fails for every line that does not split into exactly 13
\* white-space separated tokens, lines of more than 13 tokens included.
C7_TokenCountMismatchFails ==
    (pc = "HDHALog_parse" /\ Len(Tokens(args.line)) # 13) => result = Panic

\* The optional columns and the field each fills.
OptionalField ==
    [i \in 6..12 |-> <<"surface_pressure", "temp", "dewpoint", "wind", "peak_wind_speed",
                       "peak_sfmr_speed", "rain_rate">>[i - 5]]
LogFields ==
    {"time", "location", "aircraft_pressure", "height", "surface_pressure", "temp",
     "dewpoint", "wind", "peak_wind_speed", "peak_sfmr_speed", "rain_rate",
     "latlon_questionable", "altitude_or_pressure_questionable",
     "temp_or_dewpoint_questionable", "winds_questionable", "sfmr_questionable"}

\* C8: when an optional column holds "///" and the line parses with a number in its
\* place, the line parses with the "///" too, the column's field is absent and every
\* other field is what it is with the number in place.
C8_SentinelIsAbsent ==
    (pc = "HDHALog_parse" /\ Len(ArgCols) = 13) =>
        \A i \in 6..12 :
            LET filled == HDHALog_parse(args.date, JoinCols([ArgCols EXCEPT ![i] = Cols1[i]]))
            IN (ArgCols[i] = <<"/", "/", "/">> /\ filled.tag = "return") =>
                   /\ result.tag = "return"
                   /\ result.val[OptionalField[i]] = None
                   /\ \A f \in LogFields \ {OptionalField[i]} :
                          result.val[f] = filled.val[f]

\* C8's case: a line whose seven optional columns all hold "///" was parsed, and the
\* seven fields are absent.
C8_Witness ==
    /\ pc = "HDHALog_parse"
    /\ Len(ArgCols) = 13
    /\ \A i \in 6..12 : ArgCols[i] = <<"/", "/", "/">>
    /\ result.tag = "return"
    /\ \A i \in 6..12 : result.val[OptionalField[i]] = None
    /\ result.val.aircraft_pressure = 923600

\* C9: in a parsed record the temperature, the dewpoint, the peak wind, the peak SFMR
\* speed and the rain rate are absent only if their token is "///": any other token
\* that is no number fails the parse.
C9_AbsentOnlyForSentinel ==
    (pc = "HDHALog_parse" /\ result.tag = "return") =>
        \A i \in {7, 8, 10, 11, 12} :
            result.val[OptionalField[i]] = None => ArgCols[i] = <<"/", "/", "/">>

-----------------------------------------------------------------------------
(* Angle called on its own *)

\* The greatest minutes and seconds handed to the constructor: one past the 59 of a
\* well-formed angle.
MaxMinutes == 60
MaxSeconds == 60

\* The greatest degrees handed to the constructor: one past the 359 of a well-formed
\* angle.
MaxDegrees == 360

\* Degrees: the compass points of measure.rs, the ends of the circle and one past it.
DegreeSamples == {0, 1, 61, 90, 180, 270, 359, 360}

\* The (d, m, s) handed to the constructor: every minute and second with the sampled
\* degrees, and every degree and minute with the first and the last second.
AngleInputs ==
    [d : DegreeSamples, m : 0..MaxMinutes, s : 0..MaxSeconds]
    \cup [d : 0..MaxDegrees, m : 0..MaxMinutes, s : {0, 59}]

InitAngle ==
    /\ overflow_checks \in BOOLEAN
    /\ pc = "call"
    /\ args \in AngleInputs
    /\ result = NoValue
    /\ NoMessage

Call_with_degrees_minutes_seconds ==
    /\ pc = "call"
    /\ pc' = "with_degrees_minutes_seconds"
    /\ result' = Ret(Angle_with_degrees_minutes_seconds(args.d, args.m, args.s))
    /\ UNCHANGED <<overflow_checks, hdob, lines, header, mission_id, obs_number, date, obs,
                   args>>

Call_degrees_minutes_seconds ==
    /\ pc = "with_degrees_minutes_seconds"
    /\ pc' = "degrees_minutes_seconds"
    /\ result' = Ret([angle |-> result.val,
                      dms |-> Angle_degrees_minutes_seconds(result.val)])
    /\ UNCHANGED <<overflow_checks, hdob, lines, header, mission_id, obs_number, date, obs,
                   args>>

NextAngle == Call_with_degrees_minutes_seconds \/ Call_degrees_minutes_seconds

SpecAngle == InitAngle /\ [][NextAngle]_vars

\* C10: for d < 360, m < 60 and s < 60 the angle built from (d, m, s) decomposes into
\* (d, m, s) again, and it stores d*3600 + m*60 + s arc seconds, within 0..1,296,000.
C10_AngleRoundTrip ==
    (pc = "degrees_minutes_seconds" /\ args.d < 360 /\ args.m < 60 /\ args.s < 60) =>
        /\ result.val.dms = <<args.d, args.m, args.s>>
        /\ result.val.angle = args.d * 3600 + args.m * 60 + args.s
        /\ result.val.angle \in 0..1296000

\* C10's case: 359 degrees 59 minutes 59 seconds was built, stored as 1,295,999 arc
\* seconds and decomposed again.
C10_Witness ==
    /\ pc = "degrees_minutes_seconds"
    /\ args = [d |-> 359, m |-> 59, s |-> 59]
    /\ result.val.angle = 1295999
    /\ result.val.dms = <<359, 59, 59>>

-----------------------------------------------------------------------------
(* The temperature decoder and constructor called on their own *)

\* The greatest tenths of a degree written in a temperature token.
MaxTenths == 999
\* How far below absolute zero the millicelsius handed to the constructor reach.
MaxBelowZero == 60

\* The sTTT tokens: every number up to MaxTenths in three digits under either sign,
\* and tokens that are no sign and three digits.
TemperatureTokens ==
    {<<sign>> \o ToDigits(n, 3) : sign \in {"+", "-"}, n \in 0..MaxTenths}
    \cup {MISSING, Junk, <<"2", "0", "1">>, <<"-", "9", "9", "9", "9">>, <<"+">>,
          <<"9", "9", "9", "9", "9", "9", "9", "9">>}

\* Millicelsius on both sides of absolute zero, and the ends of i32.
MillicelsiusSamples ==
    {(-273150) - k : k \in 0..MaxBelowZero} \cup {(-273150) + k : k \in 0..MaxBelowZero}
    \cup {I32Min, -99900, 0, 20100, 99900, I32Max - 273150, I32Max - 273149, I32Max}

InitTemperature ==
    /\ overflow_checks \in BOOLEAN
    /\ pc = "call"
    /\ args \in [token : TemperatureTokens] \cup [mc : MillicelsiusSamples]
    /\ result = NoValue
    /\ NoMessage

Call_parse_temperature ==
    /\ pc = "call"
    /\ "token" \in DOMAIN args
    /\ pc' = "parse_temperature"
    /\ result' = parse_temperature(args.token)
    /\ UNCHANGED <<overflow_checks, hdob, lines, header, mission_id, obs_number, date, obs,
                   args>>

Call_with_millicelsius ==
    /\ pc = "call"
    /\ "mc" \in DOMAIN args
    /\ pc' = "with_millicelsius"
    /\ result' = Temperature_with_millicelsius(args.mc)
    /\ UNCHANGED <<overflow_checks, hdob, lines, header, mission_id, obs_number, date, obs,
                   args>>

NextTemperature == Call_parse_temperature \/ Call_with_millicelsius

SpecTemperature == InitTemperature /\ [][NextTemperature]_vars

\* A token of a sign and three digits, and the tenths of a degree it writes.
IsSignedThreeDigits(t) ==
    /\ Len(t) = 4
    /\ t[1] \in {"+", "-"}
    /\ \A i \in 2..4 : t[i] \in {DigitChars[k] : k \in 1..10}
TenthsOf(t) ==
    LET n == DigitVal(t[2]) * 100 + DigitVal(t[3]) * 10 + DigitVal(t[4])
    IN IF t[1] = "-" THEN 0 - n ELSE n

\* C11: for every token of a sign and three digits, of value t tenths of a degree,
\* parse_temperature returns a present Temperature of t*100 + 273,150 millikelvin,
\* which is not negative; and Temperature::with_millicelsius(mc) fails for every mc
\* with mc + 273,150 < 0 and never returns a Temperature below zero millikelvin.
C11_TemperatureAboveAbsoluteZero ==
    /\ (pc = "parse_temperature" /\ IsSignedThreeDigits(args.token)) =>
           /\ result = Ret(Some(TenthsOf(args.token) * 100 + 273150))
           /\ result.val.val >= 0
    /\ (pc = "with_millicelsius" /\ args.mc < -273150) => result = Panic
    /\ (pc = "with_millicelsius" /\ result.tag = "return") => result.val >= 0
    /\ (pc = "with_millicelsius" /\ args.mc >= -273150 /\ args.mc <= I32Max - 273150) =>
           result = Ret(args.mc + 273150)

\* C11's case: the coldest token, "-999", has been decoded to 173,250 millikelvin.
C11_Witness ==
    /\ pc = "parse_temperature"
    /\ args.token = <<"-", "9", "9", "9">>
    /\ result = Ret(Some(173250))

====
